---- MODULE Spec2Model ----
(***************************************************************************)
(* Model of magneticod/transports/mainline.py: the Mainline DHT Transport, *)
(* an asyncio.DatagramProtocol that queues outbound messages and drains    *)
(* them from a background task (_send_messages).                           *)
(*                                                                         *)
(* Scheduling: one asyncio event loop.  Callbacks and the code between two *)
(* awaits of a task run to completion, so each callback is one action and  *)
(* one iteration of _send_messages (from the return of asyncio.wait to the *)
(* next asyncio.wait) is one action.  The two Event.wait() coroutines that *)
(* asyncio.wait wraps in tasks are steps of their own.                     *)
(***************************************************************************)
EXTENDS Integers, Sequences, FiniteSets, TLC

\* ---------------------------------------------------------------- bounds
\* Resolution of the monotonic clock: ticks per time unit (the clock is a
\* float in the code, queued_on is its integer part).
TicksPerUnit == 2

\* Number of send_message calls explored.
MaxCalls == 2

\* Number of datagram_received calls explored.
MaxDatagrams == 1

\* Ticks the clock is followed for, from 0 and from the staleness threshold.
ExtraTicks == 1

\* ------------------------------------------------------ program constants
\* mainline.py:111  "time.monotonic() - queued_on > 60"
StaleAfter == 60

\* mainline.py:100  sys.exit(1)
ExitCode == 1

\* ----------------------------------------------------------------- inputs
Hosts == {"203.0.113.5"}
Ports == {0, 6881}
Addresses == Hosts \X Ports

\* codec.Message values handed to send_message.
Messages == {"ping"}

\* Raw datagram payloads handed to datagram_received.
Payloads == {"d1:y1:qe", "le", "i7e", "junk"}

\* Exceptions handed to connection_lost (None is "no error").
Excs == {"None", "OSError"}

\* The instants at which the clock is observed: the first ticks, and the
\* same ticks one staleness threshold later.
Instants == {k * StaleAfter * TicksPerUnit + e : k \in {0, 1}, e \in 0..ExtraTicks}

VARIABLES
    write_allowed,       \* self._write_allowed      (asyncio.Event value)
    queue_nonempty,      \* self._queue_nonempty     (asyncio.Event value)
    message_queue,       \* self._message_queue      (deque, right end = tail)
    datagram_transport,  \* self._datagram_transport ("base" or "socket")
    messenger_task,      \* self._messenger_task: [pc, wa, qn]
    clock,               \* time.monotonic(), in ticks
    calls,               \* number of send_message calls made
    sendto_log,          \* calls of self._datagram_transport.sendto, in order, each
                         \* with the entry's id and its age in ticks since send_message
    dropped,             \* the entries popped and found stale (id, age in ticks)
    unresumed,           \* ids of the entries queued while writing was not allowed,
                         \* with no connection_made or resume_writing since
    ever_allowed,        \* connection_made or resume_writing has been called
    received,            \* number of datagram_received calls made
    decodes,             \* number of codec.decode calls made
    handled,             \* calls of self.on_message, in order
    recv,                \* last datagram_received call and how it ended
    log,                 \* last logging record
    exited,              \* the process has terminated (sys.exit)
    exit_status          \* its exit status

vars == <<write_allowed, queue_nonempty, message_queue, datagram_transport,
          messenger_task, clock, calls, sendto_log, dropped, unresumed,
          ever_allowed, received, decodes, handled, recv, log, exited, exit_status>>

sendVars == <<write_allowed, queue_nonempty, message_queue, datagram_transport,
              messenger_task, calls, sendto_log, dropped, unresumed, ever_allowed>>
recvVars == <<received, decodes, handled, recv>>
exitVars == <<exited, exit_status>>

\* ------------------------------------------------------------------ codec
\* codec.decode: bencoded bytes to a value, or DecodeError.
decode(data) ==
    CASE data = "d1:y1:qe" -> [error |-> FALSE, type |-> "dict", value |-> "{y: q}"]
      [] data = "le"       -> [error |-> FALSE, type |-> "list", value |-> "[]"]
      [] data = "i7e"      -> [error |-> FALSE, type |-> "int",  value |-> "7"]
      [] OTHER             -> [error |-> TRUE,  type |-> "none", value |-> "DecodeError"]

\* codec.encode: a message to its bencoded bytes.
encode(message) ==
    CASE message = "ping"      -> "d1:q4:pinge"
      [] message = "find_node" -> "d1:q9:find_nodee"
      [] OTHER                 -> "de"

\* ---------------------------------------------------------- asyncio.Event
\* Event.set(): the future of a waiter blocked on the event is resolved; the
\* waiter then completes whatever happens to the event afterwards.
EventSet(waiter) == IF waiter = "blocked" THEN "done" ELSE waiter

\* First run of the task wrapping Event.wait(): returns at once when the
\* event is set, otherwise blocks on a future.
EventWait(value) == IF value THEN "done" ELSE "blocked"

\* int(time.monotonic())
IntMonotonic == clock \div TicksPerUnit

\* ------------------------------------------------------------------- Init
\* Transport.__init__
Init ==
    /\ write_allowed = FALSE
    /\ queue_nonempty = FALSE
    /\ message_queue = << >>
    /\ datagram_transport = "base"
    /\ messenger_task = [pc |-> "wait", wa |-> "new", qn |-> "new"]  \* asyncio.Task(...)
    /\ clock = 0
    /\ calls = 0
    /\ sendto_log = << >>
    /\ dropped = {}
    /\ unresumed = {}
    /\ ever_allowed = FALSE
    /\ received = 0
    /\ decodes = 0
    /\ handled = << >>
    /\ recv = [data |-> "", address |-> <<"", 0>>, result |-> "none"]
    /\ log = [level |-> "NONE", msg |-> "", exc_info |-> "None"]
    /\ exited = FALSE
    /\ exit_status = 0

\* ---------------------------------------------------------------- actions
\* The event is set only for the first entry of an empty deque, and the entry
\* is put at the left end.
SendMessageEffect_Left(message, address) ==
    /\ message_queue' = <<[queued_on |-> IntMonotonic, message |-> message,
                           address |-> address, id |-> calls + 1,
                           called_at |-> clock]>> \o message_queue
    /\ queue_nonempty' = (queue_nonempty \/ message_queue = << >>)
    /\ messenger_task' = IF queue_nonempty \/ message_queue # << >> THEN messenger_task
                         ELSE [messenger_task EXCEPT !.qn = EventSet(@)]
    /\ UNCHANGED <<write_allowed, datagram_transport, sendto_log, dropped>>

\* The test of the event inverted: set() is called only when already set.
SendMessageEffect_NoSet(message, address) ==
    /\ message_queue' = Append(message_queue,
                               [queued_on |-> IntMonotonic, message |-> message,
                                address |-> address, id |-> calls + 1,
                                called_at |-> clock])
    /\ UNCHANGED <<queue_nonempty, messenger_task>>
    /\ UNCHANGED <<write_allowed, datagram_transport, sendto_log, dropped>>

\* Transport.send_message
SendMessageEffect(message, address) ==
    /\ message_queue' = Append(message_queue,
                               [queued_on |-> IntMonotonic, message |-> message,
                                address |-> address, id |-> calls + 1,
                                called_at |-> clock])
    /\ queue_nonempty' = TRUE
    /\ messenger_task' = IF queue_nonempty THEN messenger_task
                         ELSE [messenger_task EXCEPT !.qn = EventSet(@)]
    /\ UNCHANGED <<write_allowed, datagram_transport, sendto_log, dropped>>

send_message(message, address) ==
    /\ ~exited
    /\ calls < MaxCalls
    /\ calls' = calls + 1
    /\ SendMessageEffect(message, address)
    /\ unresumed' = IF write_allowed THEN unresumed ELSE unresumed \cup {calls + 1}
    /\ UNCHANGED <<ever_allowed, clock, recvVars, log, exitVars>>

\* Transport.connection_made
ConnectionMadeEffect ==
    /\ datagram_transport' = "socket"
    /\ write_allowed' = TRUE
    /\ messenger_task' = IF write_allowed THEN messenger_task
                         ELSE [messenger_task EXCEPT !.wa = EventSet(@)]

connection_made ==
    /\ ~exited
    /\ datagram_transport = "base"
    /\ ConnectionMadeEffect
    /\ unresumed' = {}
    /\ ever_allowed' = TRUE
    /\ UNCHANGED <<queue_nonempty, message_queue, calls, sendto_log, dropped,
                   clock, recvVars, log, exitVars>>

\* pause_writing clears both events.
PauseWritingEffect_BothEvents ==
    /\ write_allowed' = FALSE
    /\ queue_nonempty' = FALSE
    /\ UNCHANGED <<message_queue, messenger_task>>

\* Transport.pause_writing
PauseWritingEffect ==
    /\ write_allowed' = FALSE
    /\ UNCHANGED <<queue_nonempty, message_queue, messenger_task>>

pause_writing ==
    /\ ~exited
    /\ PauseWritingEffect
    /\ UNCHANGED <<datagram_transport, calls, sendto_log, dropped, unresumed,
                   ever_allowed, clock, recvVars, log, exitVars>>

\* Transport.resume_writing
ResumeWritingEffect ==
    /\ write_allowed' = TRUE
    /\ messenger_task' = IF write_allowed THEN messenger_task
                         ELSE [messenger_task EXCEPT !.wa = EventSet(@)]
    /\ UNCHANGED <<queue_nonempty, message_queue>>

resume_writing ==
    /\ ~exited
    /\ ResumeWritingEffect
    /\ unresumed' = {}
    /\ ever_allowed' = TRUE
    /\ UNCHANGED <<datagram_transport, calls, sendto_log, dropped,
                   clock, recvVars, log, exitVars>>

\* No check of the source port: every datagram is decoded.
DatagramReceivedEffect_NoPortCheck(data, address) ==
    LET message == decode(data) IN
    /\ decodes' = decodes + 1
    /\ IF message.error
       THEN /\ recv' = [data |-> data, address |-> address, result |-> "DecodeError caught"]
            /\ UNCHANGED handled
       ELSE IF message.type # "dict"
       THEN /\ recv' = [data |-> data, address |-> address, result |-> "not a dict"]
            /\ UNCHANGED handled
       ELSE /\ recv' = [data |-> data, address |-> address, result |-> "on_message"]
            /\ handled' = Append(handled, [message |-> message.value,
                                           address |-> address])

\* No except clause and no isinstance check: DecodeError escapes, and whatever
\* decodes is dispatched.
DatagramReceivedEffect_Unchecked(data, address) ==
    IF address[2] = 0
    THEN /\ recv' = [data |-> data, address |-> address, result |-> "port0"]
         /\ UNCHANGED <<decodes, handled>>
    ELSE LET message == decode(data) IN
         /\ decodes' = decodes + 1
         /\ IF message.error
            THEN /\ recv' = [data |-> data, address |-> address, result |-> "DecodeError raised"]
                 /\ UNCHANGED handled
            ELSE /\ recv' = [data |-> data, address |-> address, result |-> "on_message"]
                 /\ handled' = Append(handled, [message |-> message.value,
                                                address |-> address])

\* The isinstance test inverted: a dict is dropped, anything else dispatched.
DatagramReceivedEffect_DropsDict(data, address) ==
    IF address[2] = 0
    THEN /\ recv' = [data |-> data, address |-> address, result |-> "port0"]
         /\ UNCHANGED <<decodes, handled>>
    ELSE LET message == decode(data) IN
         /\ decodes' = decodes + 1
         /\ IF message.error
            THEN /\ recv' = [data |-> data, address |-> address, result |-> "DecodeError caught"]
                 /\ UNCHANGED handled
            ELSE IF message.type = "dict"
            THEN /\ recv' = [data |-> data, address |-> address, result |-> "not a dict"]
                 /\ UNCHANGED handled
            ELSE /\ recv' = [data |-> data, address |-> address, result |-> "on_message"]
                 /\ handled' = Append(handled, [message |-> message.value,
                                                address |-> address])

\* Transport.datagram_received
DatagramReceivedEffect(data, address) ==
    IF address[2] = 0
    THEN /\ recv' = [data |-> data, address |-> address, result |-> "port0"]
         /\ UNCHANGED <<decodes, handled>>
    ELSE LET message == decode(data) IN
         /\ decodes' = decodes + 1
         /\ IF message.error
            THEN /\ recv' = [data |-> data, address |-> address, result |-> "DecodeError caught"]
                 /\ UNCHANGED handled
            ELSE IF message.type # "dict"
            THEN /\ recv' = [data |-> data, address |-> address, result |-> "not a dict"]
                 /\ UNCHANGED handled
            ELSE /\ recv' = [data |-> data, address |-> address, result |-> "on_message"]
                 /\ handled' = Append(handled, [message |-> message.value,
                                                address |-> address])

datagram_received(data, address) ==
    /\ ~exited
    /\ received < MaxDatagrams
    /\ received' = received + 1
    /\ DatagramReceivedEffect(data, address)
    /\ UNCHANGED <<sendVars, clock, log, exitVars>>

\* The error is taken for a lost connection: logged, then sys.exit(1).
error_received_Fatal(exc) ==
    /\ ~exited
    /\ log' = [level |-> "DEBUG", msg |-> "Mainline DHT received error!", exc_info |-> exc]
    /\ exited' = TRUE
    /\ exit_status' = ExitCode
    /\ UNCHANGED <<sendVars, clock, recvVars>>

\* Transport.error_received
error_received(exc) ==
    /\ ~exited
    /\ log' = [level |-> "DEBUG", msg |-> "Mainline DHT received error!", exc_info |-> exc]
    /\ UNCHANGED <<sendVars, clock, recvVars, exitVars>>

\* sys.exit(1) only in the branch that has an exception.
ConnectionLostEffect_ExitOnError(exc) ==
    /\ log' = IF exc # "None"
              THEN [level |-> "FATAL",
                    msg |-> "Mainline DHT lost connection! (See the following log entry for the exception.)",
                    exc_info |-> exc]
              ELSE [level |-> "FATAL", msg |-> "Mainline DHT lost connection!",
                    exc_info |-> "None"]
    /\ exited' = (exc # "None")
    /\ exit_status' = IF exc # "None" THEN ExitCode ELSE exit_status

\* Transport.connection_lost: logging.fatal, then sys.exit(1).
ConnectionLostEffect(exc) ==
    /\ log' = IF exc # "None"
              THEN [level |-> "FATAL",
                    msg |-> "Mainline DHT lost connection! (See the following log entry for the exception.)",
                    exc_info |-> exc]
              ELSE [level |-> "FATAL", msg |-> "Mainline DHT lost connection!",
                    exc_info |-> "None"]
    /\ exited' = TRUE
    /\ exit_status' = ExitCode

connection_lost(exc) ==
    /\ ~exited
    /\ ConnectionLostEffect(exc)
    /\ UNCHANGED <<sendVars, clock, recvVars>>

\* --------------------------------------------------------- _send_messages
\* The tasks asyncio.wait makes of self._write_allowed.wait() and
\* self._queue_nonempty.wait(): their first run.
write_allowed_wait ==
    /\ ~exited
    /\ messenger_task.pc = "wait"
    /\ messenger_task.wa = "new"
    /\ messenger_task' = [messenger_task EXCEPT !.wa = EventWait(write_allowed)]
    /\ UNCHANGED <<write_allowed, queue_nonempty, message_queue, datagram_transport,
                   calls, sendto_log, dropped, unresumed, ever_allowed, clock, recvVars,
                   log, exitVars>>

queue_nonempty_wait ==
    /\ ~exited
    /\ messenger_task.pc = "wait"
    /\ messenger_task.qn = "new"
    /\ messenger_task' = [messenger_task EXCEPT !.qn = EventWait(queue_nonempty)]
    /\ UNCHANGED <<write_allowed, queue_nonempty, message_queue, datagram_transport,
                   calls, sendto_log, dropped, unresumed, ever_allowed, clock, recvVars,
                   log, exitVars>>

\* return_when=FIRST_COMPLETED: the await returns once one waiter has completed.
WaitReturns_Any(task) == task.wa = "done" \/ task.qn = "done"

\* asyncio.wait(fs) with the default return_when=ALL_COMPLETED: the await
\* returns once every waiter has completed.
WaitReturns(task) == task.wa = "done" /\ task.qn = "done"

\* deque.pop(): the index of the entry it removes and returns (the right end,
\* where deque.append put the newest entry).
PopIndex(queue) == Len(queue)

\* Operands of the age swapped: no entry is ever stale.
Stale_Swapped(queued_on) == queued_on * TicksPerUnit - clock > StaleAfter * TicksPerUnit

\* time.monotonic() - queued_on > 60
Stale(queued_on) == clock - queued_on * TicksPerUnit > StaleAfter * TicksPerUnit

\* The entry is read (queue[-1]) and left in the deque.
QueueAfterPop_Peek(queue) == queue

\* deque.pop(): the deque it leaves.
QueueAfterPop(queue) ==
    SubSeq(queue, 1, PopIndex(queue) - 1) \o SubSeq(queue, PopIndex(queue) + 1, Len(queue))

Waiting == [pc |-> "wait", wa |-> "new", qn |-> "new"]
Finished(how) == [pc |-> how, wa |-> "none", qn |-> "none"]

\* "continue" in place of "return": the stale entry is dropped and the loop
\* goes on.
AfterStale_Continue == Waiting

\* The task after the stale branch: "return" ends the coroutine.
AfterStale == Finished("returned")

\* The call goes to the address of the entry at the other end of the deque.
SendtoCall_OtherEnd(entry) ==
    [id |-> entry.id, data |-> encode(entry.message),
     address |-> message_queue[1].address,
     age |-> clock - entry.called_at]

\* self._datagram_transport.sendto(codec.encode(message), address)
SendtoCall(entry) ==
    [id |-> entry.id, data |-> encode(entry.message),
     address |-> entry.address,
     age |-> clock - entry.called_at]

\* One iteration of the loop, from the return of asyncio.wait to the next
\* asyncio.wait (or to the end of the coroutine).
SendMessagesBody ==
    IF message_queue = << >>
    THEN \* IndexError
         /\ queue_nonempty' = FALSE
         /\ messenger_task' = Waiting
         /\ UNCHANGED <<message_queue, sendto_log, dropped, unresumed>>
    ELSE LET i == PopIndex(message_queue)
             entry == message_queue[i]
         IN
         /\ message_queue' = QueueAfterPop(message_queue)
         /\ unresumed' = unresumed \ {entry.id}
         /\ UNCHANGED queue_nonempty
         /\ IF Stale(entry.queued_on)
            THEN \* return
                 /\ dropped' = dropped \cup {[id |-> entry.id,
                                                age |-> clock - entry.called_at]}
                 /\ messenger_task' = AfterStale
                 /\ UNCHANGED sendto_log
            ELSE /\ sendto_log' = Append(sendto_log, SendtoCall(entry))
                 \* asyncio.DatagramTransport().sendto raises NotImplementedError
                 /\ messenger_task' = IF datagram_transport = "base"
                                      THEN Finished("raised") ELSE Waiting
                 /\ UNCHANGED dropped

send_messages ==
    /\ ~exited
    /\ messenger_task.pc = "wait"
    /\ WaitReturns(messenger_task)
    /\ SendMessagesBody
    /\ UNCHANGED <<write_allowed, datagram_transport, calls, ever_allowed, clock, recvVars,
                   log, exitVars>>

\* The clock advances to a later instant.
Tick ==
    /\ ~exited
    /\ \E t \in Instants :
          /\ t > clock
          /\ clock' = t
    /\ UNCHANGED <<sendVars, recvVars, log, exitVars>>

\* The outbound path and the transport's lifecycle, with the clock.
Next ==
    \/ \E m \in Messages, a \in Addresses : send_message(m, a)
    \/ connection_made
    \/ \E e \in Excs \ {"None"} : error_received(e)
    \/ pause_writing
    \/ resume_writing
    \/ \E e \in Excs : connection_lost(e)
    \/ write_allowed_wait
    \/ queue_nonempty_wait
    \/ send_messages
    \/ Tick

Spec == Init /\ [][Next]_vars

\* Every callback of the protocol, the inbound path included, and the drain
\* loop, at one instant of the clock.
NextCallbacks ==
    \/ \E m \in Messages, a \in Addresses : send_message(m, a)
    \/ connection_made
    \/ \E d \in Payloads, a \in Addresses : datagram_received(d, a)
    \/ \E e \in Excs \ {"None"} : error_received(e)
    \/ pause_writing
    \/ resume_writing
    \/ \E e \in Excs : connection_lost(e)
    \/ write_allowed_wait
    \/ queue_nonempty_wait
    \/ send_messages

SpecCallbacks == Init /\ [][NextCallbacks]_vars

\* The outbound path alone, in a process that is never ended, with the event
\* loop's scheduling: a task that is ready to run is run.
NextOutbound ==
    \/ \E m \in Messages, a \in Addresses : send_message(m, a)
    \/ connection_made
    \/ pause_writing
    \/ resume_writing
    \/ write_allowed_wait
    \/ queue_nonempty_wait
    \/ send_messages
    \/ Tick

SpecLive ==
    /\ Init
    /\ [][NextOutbound]_vars
    /\ WF_vars(write_allowed_wait)
    /\ WF_vars(queue_nonempty_wait)
    /\ WF_vars(send_messages)

\* ------------------------------------------------------------- properties
QueuedIds == {message_queue[i].id : i \in 1..Len(message_queue)}
SentIds == {sendto_log[i].id : i \in 1..Len(sendto_log)}
DroppedIds == {d.id : d \in dropped}

\* A step in which _send_messages calls sendto.
SendtoStep == Len(sendto_log') = Len(sendto_log) + 1
LastSendto == sendto_log'[Len(sendto_log')]

\* C1: sendto calls happen in the order of the send_message calls: of two
\* entries both sent, the one enqueued first is sent first.
C1_SentInEnqueueOrder ==
    \A i, j \in 1..Len(sendto_log) :
        i < j => sendto_log[i].id < sendto_log[j].id

\* C2: whenever _send_messages calls sendto, _write_allowed is set at that
\* moment.
C2_SendtoOnlyWhileWriteAllowed ==
    [][SendtoStep => write_allowed]_vars

\* C3: an entry enqueued while _write_allowed was clear is not handed to
\* sendto before writing is resumed.  Stated in the claim's favour: a
\* connection_made after the enqueue counts as a resume_writing.
C3_PausedEntryWaitsForResume ==
    [][SendtoStep => LastSendto.id \notin unresumed]_vars

\* C4: an entry whose age at pop time, counted from its send_message call,
\* exceeds 60 time units is never handed to sendto.
C4_StaleNeverSent ==
    \A i \in 1..Len(sendto_log) :
        sendto_log[i].age <= StaleAfter * TicksPerUnit

\* C4 witness: an entry more than 60 units old was popped and dropped, and
\* nothing was sent.
C4_Witness ==
    /\ \E d \in dropped : d.age > StaleAfter * TicksPerUnit
    /\ sendto_log = << >>
    /\ messenger_task.pc = "returned"

\* C5: every entry made by send_message is in exactly one place: still
\* queued, handed to sendto once, or dropped; sendto calls never outnumber
\* send_message calls and a popped entry never returns to the queue.
C5_PoppedAndSentAtMostOnce ==
    /\ Len(sendto_log) <= calls
    /\ Cardinality(SentIds) = Len(sendto_log)
    /\ Cardinality(QueuedIds) = Len(message_queue)
    /\ Cardinality(DroppedIds) = Cardinality(dropped)
    /\ QueuedIds \cap SentIds = {}
    /\ QueuedIds \cap DroppedIds = {}
    /\ SentIds \cap DroppedIds = {}
    /\ QueuedIds \cup SentIds \cup DroppedIds = 1..calls

\* C5 witness: one entry was sent and another one popped and dropped.
C5_Witness ==
    /\ Len(sendto_log) = 1
    /\ Cardinality(dropped) = 1
    /\ message_queue = << >>

\* A step that is a datagram_received call.
DatagramStep == received' = received + 1

\* C6: a datagram whose source port is 0 reaches neither codec.decode nor
\* on_message, whatever its payload.
C6_PortZeroIgnored ==
    [][(DatagramStep /\ recv'.address[2] = 0)
        => (decodes' = decodes /\ handled' = handled)]_vars

\* C6 witness: a datagram with a well-formed payload came from port 0 and
\* was neither decoded nor dispatched.
C6_Witness ==
    /\ received = 1
    /\ recv.address[2] = 0
    /\ ~decode(recv.data).error /\ decode(recv.data).type = "dict"
    /\ decodes = 0
    /\ handled = << >>

\* C7: a datagram whose payload does not decode, or decodes to something that
\* is not a dict, is not dispatched to on_message; datagram_received returns
\* normally and changes nothing of the transport.
C7_UndecodableDropped ==
    [][(DatagramStep /\ (decode(recv'.data).error \/ decode(recv'.data).type # "dict"))
        => /\ handled' = handled
           /\ recv'.result \in {"port0", "DecodeError caught", "not a dict"}
           /\ UNCHANGED <<write_allowed, queue_nonempty, message_queue,
                          datagram_transport, messenger_task, sendto_log,
                          exited, exit_status>>]_vars

\* C7 witness: a datagram from a usable port failed to decode while a message
\* was queued; nothing was dispatched.
C7_Witness ==
    /\ recv.result = "DecodeError caught"
    /\ recv.address[2] # 0
    /\ decodes = 1
    /\ handled = << >>
    /\ message_queue # << >>

\* C8: connection_lost, with an exception or without, terminates the process
\* with exit status 1; the two cases differ in the logged message only, and
\* once the process has exited there is no sendto and no on_message call.
C8_ConnectionLostTerminal ==
    [][/\ (log'.level = "FATAL" /\ log.level # "FATAL")
          => /\ exited' /\ exit_status' = 1 /\ exit_status' # 0
             /\ UNCHANGED <<sendVars, recvVars, clock>>
       /\ exited => UNCHANGED <<sendto_log, handled, exited, exit_status>>]_vars

\* C8 witness: connection_lost(None) ended the process while a message was
\* still queued.
C8_Witness ==
    /\ exited
    /\ exit_status = 1
    /\ log.level = "FATAL" /\ log.exc_info = "None"
    /\ message_queue # << >>

\* A step that is a send_message call.
SendMessageStep == calls' = calls + 1

\* C9: send_message can be called in every state of a live transport; the
\* call appends one entry at the tail of the queue, keeps the entries already
\* queued and the write-readiness flag, leaves queue-activity set, and calls
\* no sendto.
C9_SendMessageAppendsOnly ==
    [][/\ (~exited /\ calls < MaxCalls)
          => ENABLED (\E m \in Messages, a \in Addresses : send_message(m, a))
       /\ SendMessageStep
          => /\ Len(message_queue') = Len(message_queue) + 1
             /\ SubSeq(message_queue', 1, Len(message_queue)) = message_queue
             /\ message_queue'[Len(message_queue')].id = calls'
             /\ message_queue'[Len(message_queue')].queued_on = clock \div TicksPerUnit
             /\ write_allowed' = write_allowed
             /\ queue_nonempty'
             /\ sendto_log' = sendto_log
             /\ dropped' = dropped]_vars

\* C9 witness: with no socket bound and writing not allowed, send_message
\* appended a second entry behind the one queued a threshold earlier.
C9_Witness ==
    /\ datagram_transport = "base"
    /\ ~write_allowed
    /\ queue_nonempty
    /\ Len(message_queue) = 2
    /\ message_queue[1].id = 1 /\ message_queue[2].id = 2
    /\ message_queue[2].queued_on >= message_queue[1].queued_on + StaleAfter
    /\ sendto_log = << >>

\* A step that is one iteration of the drain loop: the waiters are new again,
\* or the loop has ended.
IterationStep ==
    /\ messenger_task' # messenger_task
    /\ messenger_task'.wa \in {"new", "none"}
    /\ messenger_task'.qn \in {"new", "none"}

\* C10 as stated: the wait is a wait-for-any, so the loop can go on to the pop
\* as soon as one of the two waits has completed.
C10_WaitForAny ==
    (~exited /\ messenger_task.pc = "wait"
        /\ (messenger_task.wa = "done" \/ messenger_task.qn = "done"))
    => ENABLED send_messages

\* C10 amended: the wait is a wait-for-all; the loop goes on to the pop only
\* when both waits have completed.
C10_WaitForAll ==
    [][IterationStep => (messenger_task.wa = "done" /\ messenger_task.qn = "done")]_vars

\* C10 witness: an entry is queued and queue-activity's wait has completed,
\* but the loop is held at the wait because writing was never allowed.
C10_Witness ==
    /\ messenger_task = [pc |-> "wait", wa |-> "blocked", qn |-> "done"]
    /\ message_queue # << >>
    /\ queue_nonempty
    /\ ~write_allowed

Threshold == StaleAfter * TicksPerUnit

\* C11: an entry popped more than 60 units after its send_message call is
\* removed and dropped and ends the drain loop; once an entry has been dropped
\* the loop stays ended, nothing is sent or popped any more, and every entry
\* queued then or later stays in the queue.
C11_StaleEndsLoop ==
    [][/\ \A i \in 1..Len(message_queue) :
             (message_queue[i].id \notin QueuedIds'
                 /\ clock - message_queue[i].called_at > Threshold)
             => /\ message_queue[i].id \in DroppedIds'
                /\ messenger_task'.pc = "returned"
                /\ sendto_log' = sendto_log
       /\ dropped # {}
          => /\ messenger_task.pc = "returned"
             /\ messenger_task' = messenger_task
             /\ sendto_log' = sendto_log
             /\ dropped' = dropped
             /\ Len(message_queue') >= Len(message_queue)
             /\ SubSeq(message_queue', 1, Len(message_queue)) = message_queue]_vars

\* C11 witness: after a stale entry was dropped a later entry sits in the
\* queue, with the socket bound, writing allowed and queue-activity set.
C11_Witness ==
    /\ \E d \in dropped : d.id = 1 /\ d.age > Threshold
    /\ Len(message_queue) = 1 /\ message_queue[1].id = 2
    /\ datagram_transport = "socket"
    /\ write_allowed
    /\ queue_nonempty
    /\ sendto_log = << >>

\* C12: whenever the queue holds an entry, queue-activity is set; the signal
\* is cleared only by an iteration of the drain loop that found the queue
\* empty.
C12_NoLostWakeup ==
    [][/\ message_queue # << >> => queue_nonempty
       /\ message_queue' # << >> => queue_nonempty'
       /\ (queue_nonempty /\ ~queue_nonempty')
          => (IterationStep /\ message_queue = << >> /\ message_queue' = << >>)]_vars

\* C12 witness: every entry was sent and the loop then found the queue empty
\* and cleared queue-activity.
C12_Witness ==
    /\ calls = MaxCalls
    /\ Len(sendto_log) = calls
    /\ message_queue = << >>
    /\ ~queue_nonempty

\* C13: an entry popped no more than 60 units after its send_message call is
\* sent, not dropped: every dropped entry is more than 60 units old.
C13_FreshEntrySent ==
    \A d \in dropped : d.age > Threshold

\* C14 as stated: no sendto goes to an address whose port is 0.
C14_NoSendtoPortZero ==
    \A i \in 1..Len(sendto_log) : sendto_log[i].address[2] # 0

\* C14 amended: each sendto goes to the address given to send_message for
\* that entry, so a sendto to port 0 happens only for an entry that a caller
\* enqueued with port 0.
C14_SendtoGivenAddress ==
    [][SendtoStep
        => \E i \in 1..Len(message_queue) :
              /\ message_queue[i].id = LastSendto.id
              /\ message_queue[i].address = LastSendto.address
              /\ LastSendto.data = encode(message_queue[i].message)]_vars

\* C14 witness: of two entries sent, the one enqueued for port 0 went to port
\* 0 and the other one to its own port.
C14_Witness ==
    /\ Len(sendto_log) = 2
    /\ \E i, j \in 1..2 :
          /\ sendto_log[i].address[2] = 0
          /\ sendto_log[j].address[2] # 0

\* C15: a datagram from a port other than 0 whose payload decodes to a dict is
\* dispatched to on_message exactly once, with the decoded message and the
\* source address, whatever the write-readiness flag and the queue are, and
\* leaves both as they were.
C15_EnvelopeDispatched ==
    [][(DatagramStep /\ recv'.address[2] # 0
           /\ ~decode(recv'.data).error /\ decode(recv'.data).type = "dict")
        => /\ handled' = Append(handled, [message |-> decode(recv'.data).value,
                                          address |-> recv'.address])
           /\ decodes' = decodes + 1
           /\ UNCHANGED <<write_allowed, queue_nonempty, message_queue,
                          messenger_task, sendto_log>>]_vars

\* C15 witness: a dict datagram was dispatched while writing was not allowed
\* and an entry was queued.
C15_Witness ==
    /\ recv.result = "on_message"
    /\ handled = <<[message |-> "{y: q}", address |-> recv.address]>>
    /\ recv.address[2] # 0
    /\ ~write_allowed
    /\ message_queue # << >>

\* C16: a step that changes the write-readiness flag changes nothing else of
\* the transport (no queue entry, not queue-activity, no sendto, no pop), only
\* waking a waiter blocked on the flag: it is a connection_made, pause_writing
\* or resume_writing, never send_message, datagram_received, error_received
\* or the drain loop.
C16_OnlySocketCallbacksToggle ==
    [][write_allowed' # write_allowed
        => /\ UNCHANGED <<queue_nonempty, message_queue, sendto_log, dropped, calls,
                          recvVars, log, exitVars, clock>>
           /\ messenger_task' \in {messenger_task,
                                   [messenger_task EXCEPT !.wa = "done"]}
           /\ write_allowed' => ever_allowed']_vars

\* C16 witness: writing was paused after the socket was bound, with an entry
\* queued and queue-activity set.
C16_Witness ==
    /\ ~write_allowed
    /\ ever_allowed
    /\ datagram_transport = "socket"
    /\ Len(message_queue) = 2
    /\ queue_nonempty
    /\ sendto_log = << >>

\* A step that is an error_received call (one that logs a new record).
ErrorStep == log' # log /\ log'.level = "DEBUG"

\* C17: error_received changes nothing of the transport: queue, flags, drain
\* loop and sendto calls stay as they are, and the process goes on.
C17_ErrorReceivedInert ==
    [][/\ ErrorStep => UNCHANGED <<sendVars, recvVars, exitVars, clock>>
       /\ log.level = "DEBUG" => ~exited
       /\ log'.level = "DEBUG" => ~exited']_vars

\* C17 witness: an error was received and logged, an entry has been sent
\* and another one is still queued for the running loop.
C17_Witness ==
    /\ log.level = "DEBUG"
    /\ ~exited
    /\ Len(sendto_log) = 1
    /\ Len(message_queue) = 1
    /\ messenger_task.pc = "wait"

\* C18: a new transport has an empty queue and both events unset, and until
\* the first connection_made or resume_writing the drain loop pops nothing and
\* sends nothing, however many entries send_message has queued.
C18_NothingBeforeFirstAllow ==
    /\ (calls = 0 /\ ~ever_allowed)
          => (message_queue = << >> /\ ~queue_nonempty /\ ~write_allowed)
    /\ ~ever_allowed
          => /\ sendto_log = << >>
             /\ dropped = {}
             /\ Len(message_queue) = calls
             /\ ~write_allowed
             /\ messenger_task.pc = "wait"

\* C18 witness: every send_message call allowed has been made, queue-activity
\* has woken its waiter, and the loop is still held: writing was never allowed.
C18_Witness ==
    /\ ~ever_allowed
    /\ calls = MaxCalls
    /\ Len(message_queue) = MaxCalls
    /\ messenger_task = [pc |-> "wait", wa |-> "blocked", qn |-> "done"]
    /\ clock >= Threshold

\* C20: an iteration that finds the queue empty clears queue-activity, sends
\* nothing and goes back to the wait; while queue-activity is clear the loop
\* makes no further iteration, and only send_message sets it again.
C20_NoBusyWait ==
    [][/\ (IterationStep /\ message_queue = << >>)
          => /\ ~queue_nonempty'
             /\ messenger_task' = Waiting
             /\ UNCHANGED <<message_queue, sendto_log, dropped>>
       /\ ~queue_nonempty => ~IterationStep
       /\ (~queue_nonempty /\ queue_nonempty') => SendMessageStep]_vars

\* C20 witness: after a send the loop found the queue empty and now waits,
\* blocked on queue-activity, although writing is allowed.
C20_Witness ==
    /\ Len(sendto_log) >= 1
    /\ message_queue = << >>
    /\ ~queue_nonempty
    /\ write_allowed
    /\ messenger_task = [pc |-> "wait", wa |-> "done", qn |-> "blocked"]

\* C19: if from some point on writing stays allowed, every queued entry is
\* eventually popped.  Stated in the claim's favour: for runs in which sendto
\* never raises (the socket is bound before the loop first sends).
C19_EveryEntryPopped ==
    (<>[](write_allowed /\ messenger_task.pc # "raised"))
    => \A id \in 1..MaxCalls : (id \in QueuedIds) ~> (id \notin QueuedIds)
====
